---- MODULE Spec2Model ----
(***************************************************************************)
(* ClassifierPipeline.ipynb: a notebook that reads CTG_data.csv into a     *)
(* Spark DataFrame, drops rows with missing values, prunes a hardcoded     *)
(* list of columns, assembles the remaining non-label columns into x_vec,  *)
(* min-max scales x_vec into x_scaled, shows one row, and then splits the  *)
(* scaled table at random.                                                 *)
(*                                                                         *)
(* Spec     : the committed notebook run cell by cell, top to bottom, in a *)
(*            fresh kernel.  A cell is compiled as a whole before any of   *)
(*            its statements runs, and the run stops at the first error.   *)
(* StmtSpec : the same cells up to the display, followed by the statements *)
(*            of lines 248 and 259 applied on their own to the scaled      *)
(*            table (the line 249 `labels = ` is not part of it).          *)
(*                                                                         *)
(* A table is [bound, columns, rows]: columns is the ordered schema, rows  *)
(* a sequence of functions from column name to cell.  A cell is            *)
(* [null, v]; v is an integer for a source column, a sequence of integers  *)
(* for x_vec and a sequence of fractions <<num, den>> for x_scaled.        *)
(***************************************************************************)
EXTENDS Integers, Sequences, FiniteSets, TLC

VARIABLES pc, err, spark, csv, df, featuresToScale, temp_train, scalerModel,
          fits, scaledData, display, train_data, test_data, labels, training,
          rng

vars == <<pc, err, spark, csv, df, featuresToScale, temp_train, scalerModel,
          fits, scaledData, display, train_data, test_data, labels, training,
          rng>>

-----------------------------------------------------------------------------
(* Bounds of the input space *)

MaxRows == 3

-----------------------------------------------------------------------------
(* Values *)

Range(s) == {s[i] : i \in DOMAIN s}

None == [null |-> TRUE, v |-> 0]

Val(x) == [null |-> FALSE, v |-> x]

Unbound == [bound |-> FALSE, columns |-> <<>>, rows |-> <<>>]

Table(cols, rws) == [bound |-> TRUE, columns |-> cols, rows |-> rws]

NoModel == [fitted |-> FALSE, originalMin |-> <<>>, originalMax |-> <<>>]

-----------------------------------------------------------------------------
(* Program constants *)

\* line 107: df.drop("FileName","Date","SegFile")
DropFileColumns == {"FileName", "Date", "SegFile"}

\* the one-hot names as the dataset's documentation spells them, not as the
\* file's header does (B29, E32)
DropOneHotAsDocumented == {"A", "B", "C", "D", "E", "AD", "DE", "LD", "FS", "SUSP"}

\* line 113: df.drop("A","B29","C","D","E32","AD","DE","LD","FS","SUSP")
DropOneHotColumns == {"A", "B29", "C", "D", "E32", "AD", "DE", "LD", "FS", "SUSP"}

\* line 175: the label columns kept out of the feature vector
LabelColumns == {"CLASS", "NSP"}

\* line 248: randomSplit([0.75, 0.35], 23); the weights in hundredths
Weights == <<75, 35>>

Seed == 23

\* lines 64-90: the schema printed by the committed run of the read cell
CommittedSchema ==
  <<"b3", "e4", "LBE", "LB", "AC", "FM", "UC", "ASTV", "MSTV", "ALTV", "MLTV",
    "DL", "DS", "DP", "DR", "Width", "Min", "Max", "Nmax", "Nzeros", "Mode",
    "Mean", "Median", "Variance", "Tendency", "CLASS", "NSP">>

-----------------------------------------------------------------------------
(* DataFrame operations used by the read cell *)

HasNull(r) == \E c \in DOMAIN r : r[c].null

\* df.dropna(how="all"): only a row with no value at all is removed
DropNaAll(t) ==
  Table(t.columns, SelectSeq(t.rows, LAMBDA r : \E c \in DOMAIN r : ~r[c].null))

\* line 103: df.dropna() keeps the rows with no missing value in any column
DropNa(t) == Table(t.columns, SelectSeq(t.rows, LAMBDA r : ~HasNull(r)))

\* lines 107, 113: df.drop(*names) removes the named columns that exist and
\* ignores the names that do not; rows and column order are kept
Drop(t, names) ==
  LET keep == SelectSeq(t.columns, LAMBDA c : c \notin names)
  IN  Table(keep, [i \in DOMAIN t.rows |->
                     [c \in Range(keep) |-> t.rows[i][c]]])

\* the columns pruned first and the null-drop last
PreprocessPruneFirst(t) == DropNa(Drop(Drop(t, DropFileColumns), DropOneHotColumns))

\* lines 103-113: the three reassignments of df after the read
Preprocess(t) == Drop(Drop(DropNa(t), DropFileColumns), DropOneHotColumns)

-----------------------------------------------------------------------------
(* Feature assembly and scaling *)

\* the filter with NSP forgotten
FeaturesExceptClass(t) == SelectSeq(t.columns, LAMBDA c : c # "CLASS")

\* line 175: [f[0] for f in df.dtypes if f[0] not in ["CLASS", "NSP"]]
FeaturesToScale(t) == SelectSeq(t.columns, LAMBDA c : c \notin LabelColumns)

\* lines 177-178: VectorAssembler(handleInvalid="error") raises on a null input
AssembleFails(t, inputCols) ==
  \E i \in DOMAIN t.rows : \E k \in DOMAIN inputCols : t.rows[i][inputCols[k]].null

\* lines 177-178: the assembler appends outputCol, the row's inputCols values in
\* the order of inputCols
Assemble(t, inputCols, outputCol) ==
  Table(Append(t.columns, outputCol),
        [i \in DOMAIN t.rows |->
           [c \in Range(t.columns) \cup {outputCol} |->
              IF c = outputCol
                THEN Val([k \in DOMAIN inputCols |-> t.rows[i][inputCols[k]].v])
                ELSE t.rows[i][c]]])

SetMin(S) == CHOOSE x \in S : \A y \in S : x <= y

SetMax(S) == CHOOSE x \in S : \A y \in S : x >= y

Dim(t, col) == IF t.rows = <<>> THEN 0 ELSE Len(t.rows[1][col].v)

Column(t, col, k) == {t.rows[i][col].v[k] : i \in DOMAIN t.rows}

\* one minimum and one maximum over all the dimensions together
FitGlobal(t, inputCol) ==
  LET all == UNION {Column(t, inputCol, k) : k \in 1..Dim(t, inputCol)}
  IN  [fitted      |-> TRUE,
       originalMin |-> [k \in 1..Dim(t, inputCol) |-> SetMin(all)],
       originalMax |-> [k \in 1..Dim(t, inputCol) |-> SetMax(all)]]

\* the scaler fit on the first row alone
FitHead(t, inputCol) ==
  [fitted      |-> TRUE,
   originalMin |-> [k \in 1..Dim(t, inputCol) |-> t.rows[1][inputCol].v[k]],
   originalMax |-> [k \in 1..Dim(t, inputCol) |-> t.rows[1][inputCol].v[k]]]

\* line 181: scaler.fit(temp_train): the per-dimension minimum and maximum of
\* inputCol over every row of the table
Fit(t, inputCol) ==
  [fitted      |-> TRUE,
   originalMin |-> [k \in 1..Dim(t, inputCol) |-> SetMin(Column(t, inputCol, k))],
   originalMax |-> [k \in 1..Dim(t, inputCol) |-> SetMax(Column(t, inputCol, k))]]

\* MinMaxScalerModel with the default output range [0, 1]: (x - Emin) / (Emax - Emin),
\* and 0.5 for a dimension whose Emax = Emin.  A fraction is <<num, den>>.
Rescale(x, lo, hi) == IF hi = lo THEN <<1, 2>> ELSE <<x - lo, hi - lo>>

\* a transform that centres its input column in place before scaling it
TransformInPlace(model, t, inputCol, outputCol) ==
  Table(Append(t.columns, outputCol),
        [i \in DOMAIN t.rows |->
           [c \in Range(t.columns) \cup {outputCol} |->
              CASE c = outputCol ->
                     Val([k \in DOMAIN t.rows[i][inputCol].v |->
                            Rescale(t.rows[i][inputCol].v[k],
                                    model.originalMin[k], model.originalMax[k])])
                [] c = inputCol ->
                     Val([k \in DOMAIN t.rows[i][inputCol].v |->
                            t.rows[i][inputCol].v[k] - model.originalMin[k]])
                [] OTHER -> t.rows[i][c]]])

\* line 181: model.transform(temp_train) appends outputCol
Transform(model, t, inputCol, outputCol) ==
  Table(Append(t.columns, outputCol),
        [i \in DOMAIN t.rows |->
           [c \in Range(t.columns) \cup {outputCol} |->
              IF c = outputCol
                THEN Val([k \in DOMAIN t.rows[i][inputCol].v |->
                            Rescale(t.rows[i][inputCol].v[k],
                                    model.originalMin[k], model.originalMax[k])])
                ELSE t.rows[i][c]]])

\* lines 175-178: temp_train as a function of df
Assembled(t) == Assemble(t, FeaturesToScale(t), "x_vec")

\* lines 180-181: scaledData as a function of df
Scaled(t) ==
  Transform(Fit(Assembled(t), "x_vec"), Assembled(t), "x_vec", "x_scaled")

-----------------------------------------------------------------------------
(* Random split and selection *)

\* The sampler's resolution: a draw d stands for the number d / DrawUnits of [0, 1)
DrawUnits == Weights[1] + Weights[2]

\* The generators the engine may be built with; each maps (seed, row position)
\* to a draw, and is a function of nothing else
Generators == {1, 3, 37, 41}

Draw(g, seed, k) == (g * (seed + k)) % DrawUnits

\* randomSplit normalises the weights to sum to one: split j keeps the draws x
\* with cum(j-1) / sum <= x < cum(j) / sum
SplitLow(j) == IF j = 1 THEN 0 ELSE Weights[1]

SplitHigh(j) == IF j = 1 THEN Weights[1] ELSE Weights[1] + Weights[2]

InSplit(j, d) ==
  /\ SplitLow(j) * DrawUnits <= d * (Weights[1] + Weights[2])
  /\ d * (Weights[1] + Weights[2]) < SplitHigh(j) * DrawUnits

RECURSIVE Sample(_, _, _, _, _)
\* one pass of the sampler of split j over rows k..Len(rws)
Sample(rws, g, seed, j, k) ==
  IF k > Len(rws) THEN <<>>
  ELSE (IF InSplit(j, Draw(g, seed, k)) THEN <<rws[k]>> ELSE <<>>)
       \o Sample(rws, g, seed, j, k + 1)

\* line 248: scaledData.randomSplit([0.75, 0.35], 23)[j]
RandomSplit(t, g, seed, j) == Table(t.columns, Sample(t.rows, g, seed, j, 1))

\* train_data.columns[-2]
SecondLastColumn(t) == t.columns[Len(t.columns) - 1]

\* line 259: train_data.columns[-1]
LastColumn(t) == t.columns[Len(t.columns)]

\* line 259: train_data.select(name)
Select(t, name) ==
  Table(<<name>>, [i \in DOMAIN t.rows |-> [c \in {name} |-> t.rows[i][c]]])

-----------------------------------------------------------------------------
(* The input file: the headers and cell values CTG_data.csv is drawn from *)

Headers ==
  { <<"FileName", "LB", "CLASS">>,
    <<"NSP", "LB", "DR">>,
    <<"MSTV", "E32", "CLASS">> }

ColVals(c) ==
  CASE c = "FileName" -> {None, Val(1)}
    [] c = "LB"       -> {Val(0), Val(1), Val(3)}
    [] c = "DR"       -> {Val(0), Val(1)}
    [] c = "MSTV"     -> {None, Val(5)}
    [] c = "E32"      -> {Val(0), Val(1)}
    [] c = "CLASS"    -> {Val(1), Val(2)}
    [] c = "NSP"      -> {None, Val(1)}

AllVals == UNION {ColVals(c) : c \in UNION {Range(h) : h \in Headers}}

RowsOver(h) == {r \in [Range(h) -> AllVals] : \A c \in Range(h) : r[c] \in ColVals(c)}

\* the files with header h and n rows
InputTables(h, n) == {Table(h, rws) : rws \in [1..n -> RowsOver(h)]}

-----------------------------------------------------------------------------
(* The notebook's cells *)

\* lines 248-249: the statements of the split cell, and whether each is a
\* complete statement; `labels = ` has no right-hand side
SplitCellSource ==
  << [target |-> "train_data, test_data", complete |-> TRUE],
     [target |-> "labels",                complete |-> FALSE] >>

\* a cell run statement by statement, judged by its first statement
CompilesFirstOnly(cell) == cell[1].complete

\* a cell is compiled as a whole before any of its statements runs
Compiles(cell) == \A i \in DOMAIN cell : cell[i].complete

Init ==
  /\ pc = "imports"
  /\ err = "none"
  /\ spark = FALSE
  /\ csv = Unbound
  /\ df = Unbound
  /\ featuresToScale = <<>>
  /\ temp_train = Unbound
  /\ scalerModel = NoModel
  /\ fits = 0
  /\ scaledData = Unbound
  /\ display = <<>>
  /\ train_data = Unbound
  /\ test_data = Unbound
  /\ labels = Unbound
  /\ training = Unbound
  /\ rng = 0

\* lines 21-36: the imports
ImportsCell ==
  /\ pc = "imports"
  /\ pc' = "session"
  /\ UNCHANGED <<err, spark, csv, df, featuresToScale, temp_train, scalerModel,
                 fits, scaledData, display, train_data, test_data, labels,
                 training, rng>>

\* lines 46-50: SparkSession.builder...getOrCreate()
SessionCell ==
  /\ pc = "session"
  /\ spark' = TRUE
  /\ pc' = "read"
  /\ UNCHANGED <<err, csv, df, featuresToScale, temp_train, scalerModel, fits,
                 scaledData, display, train_data, test_data, labels, training,
                 rng>>

\* lines 96-114: read the file, drop the rows with missing values, drop the
\* thirteen columns, print the schema; a missing file raises
ReadCell ==
  /\ pc = "read"
  /\ spark
  /\ \/ \E h \in Headers : \E n \in 0..MaxRows : \E t \in InputTables(h, n) :
          /\ csv' = t
          /\ df' = Preprocess(t)
          /\ display' = Append(display, [kind |-> "schema",
                                         columns |-> Preprocess(t).columns,
                                         rows |-> <<>>])
          /\ pc' = "features"
          /\ err' = err
     \/ /\ pc' = "error"
        /\ err' = "AnalysisException"
        /\ UNCHANGED <<csv, df, display>>
  /\ UNCHANGED <<spark, featuresToScale, temp_train, scalerModel, fits,
                 scaledData, train_data, test_data, labels, training, rng>>

\* lines 175-181: the feature list, the assembler and the scaler.  transform is
\* lazy, so temp_train is bound before fit evaluates the table; fit raises on a
\* null input of the assembler and on a table with no rows
FeatureCell ==
  /\ pc = "features"
  /\ LET f == FeaturesToScale(df)
     IN  /\ featuresToScale' = f
         /\ temp_train' = Assembled(df)
         /\ IF AssembleFails(df, f) \/ df.rows = <<>>
              THEN /\ pc' = "error"
                   /\ err' = "IllegalArgumentException"
                   /\ UNCHANGED <<scalerModel, fits, scaledData>>
              ELSE /\ scalerModel' = Fit(Assembled(df), "x_vec")
                   /\ fits' = fits + 1
                   /\ scaledData' = Scaled(df)
                   /\ pc' = "show"
                   /\ err' = err
  /\ UNCHANGED <<spark, csv, df, display, train_data, test_data, labels,
                 training, rng>>

\* line 205: scaledData.show(1, truncate=False)
ShowCell ==
  /\ pc = "show"
  /\ display' = Append(display, [kind |-> "show",
                                 columns |-> scaledData.columns,
                                 rows |-> SubSeq(scaledData.rows, 1, 1)])
  /\ pc' = "split"
  /\ UNCHANGED <<err, spark, csv, df, featuresToScale, temp_train, scalerModel,
                 fits, scaledData, train_data, test_data, labels, training, rng>>

\* lines 248-249: the split cell as committed
SplitCell ==
  /\ pc = "split"
  /\ IF Compiles(SplitCellSource)
       THEN /\ \E g \in Generators :
                 /\ rng' = g
                 /\ train_data' = RandomSplit(scaledData, g, Seed, 1)
                 /\ test_data' = RandomSplit(scaledData, g, Seed, 2)
            /\ labels' = Table(<<>>, <<>>)
            /\ pc' = "select"
            /\ err' = err
       ELSE /\ pc' = "error"
            /\ err' = "SyntaxError"
            /\ UNCHANGED <<train_data, test_data, labels, rng>>
  /\ UNCHANGED <<spark, csv, df, featuresToScale, temp_train, scalerModel, fits,
                 scaledData, display, training>>

Next == ImportsCell \/ SessionCell \/ ReadCell \/ FeatureCell \/ ShowCell \/ SplitCell

Spec == Init /\ [][Next]_vars

-----------------------------------------------------------------------------
(* The statements after the display, applied on their own *)

\* the sampler seeded afresh at each call
SeedAny(seed) == {seed, seed + 1}

\* the seed the sampler is built with
SeedOf(seed) == {seed}

\* line 248: train_data, test_data = scaledData.randomSplit([0.75, 0.35], 23);
\* the statement may be run again on the same table
SplitStmt ==
  /\ pc \in {"split", "select", "end"}
  /\ \E g \in (IF rng = 0 THEN Generators ELSE {rng}) : \E s \in SeedOf(Seed) :
       /\ rng' = g
       /\ train_data' = RandomSplit(scaledData, g, s, 1)
       /\ test_data' = RandomSplit(scaledData, g, s, 2)
  /\ pc' = IF pc = "split" THEN "select" ELSE pc
  /\ UNCHANGED <<err, spark, csv, df, featuresToScale, temp_train, scalerModel,
                 fits, scaledData, display, labels, training>>

\* line 259: training = train_data.select(train_data.columns[-1])
SelectCell ==
  /\ pc = "select"
  /\ training' = Select(train_data, LastColumn(train_data))
  /\ pc' = "end"
  /\ UNCHANGED <<err, spark, csv, df, featuresToScale, temp_train, scalerModel,
                 fits, scaledData, display, train_data, test_data, labels, rng>>

StmtNext ==
  ImportsCell \/ SessionCell \/ ReadCell \/ FeatureCell \/ ShowCell \/ SplitStmt
    \/ SelectCell

StmtSpec == Init /\ [][StmtNext]_vars

-----------------------------------------------------------------------------
(* Vocabulary of the properties *)

\* the positions of the file's rows that have a value in every loaded column
CleanIdx(t) ==
  {i \in DOMAIN t.rows : \A c \in Range(t.columns) : ~t.rows[i][c].null}

\* the k-th such position, in file order
NthClean(t, k) ==
  CHOOSE i \in CleanIdx(t) : Cardinality({j \in CleanIdx(t) : j <= i}) = k

\* the position of column c in table t
Pos(t, c) == CHOOSE p \in DOMAIN t.columns : t.columns[p] = c

\* the thirteen names the pruning removes
AllDropped ==
  {"FileName", "Date", "SegFile", "A", "B29", "C", "D", "E32", "AD", "DE", "LD",
   "FS", "SUSP"}

Derived == {temp_train, scaledData, train_data, test_data}

\* C1: every row of the pruned table, of the assembled table, of the scaled
\* table and of the two splits has a value in every column: no row with a
\* missing value is assembled into x_vec.
C1_NoNullAssembled ==
  /\ df.bound => \A i \in DOMAIN df.rows : \A c \in Range(df.columns) : ~df.rows[i][c].null
  /\ \A t \in Derived : t.bound =>
       \A i \in DOMAIN t.rows : \A c \in Range(t.columns) : ~t.rows[i][c].null

\* C1 witness: the file held a row with a missing value and other rows were
\* assembled and scaled
C1_Witness ==
  /\ scaledData.bound /\ scaledData.rows # <<>>
  /\ Len(csv.rows) > Len(scaledData.rows)

\* C9: the rows of df and of the assembled table are exactly the file's rows
\* that have a value in every loaded column, dropped columns included, in file
\* order and with their values.
C9_NullDropBeforePruning ==
  /\ df.bound =>
       /\ Len(df.rows) = Cardinality(CleanIdx(csv))
       /\ \A k \in DOMAIN df.rows : \A c \in Range(df.columns) :
            df.rows[k][c] = csv.rows[NthClean(csv, k)][c]
  /\ temp_train.bound => Len(temp_train.rows) = Cardinality(CleanIdx(csv))

\* C9 witness: a row whose only missing value is in a column that is dropped
\* later was removed, and another row was assembled
C9_Witness ==
  /\ temp_train.bound /\ temp_train.rows # <<>>
  /\ \E i \in DOMAIN csv.rows :
       /\ \E c \in Range(csv.columns) \cap AllDropped : csv.rows[i][c].null
       /\ \A c \in Range(csv.columns) \ AllDropped : ~csv.rows[i][c].null

\* C5: after the read cell none of the thirteen names is a column of df, every
\* other loaded column is a column of df, the columns keep their relative
\* order and their values, and the rows are those left by the null-drop.
C5_PruningFrame ==
  df.bound =>
    /\ \A c \in AllDropped : c \notin Range(df.columns)
    /\ \A c \in Range(csv.columns) \ AllDropped : c \in Range(df.columns)
    /\ Range(df.columns) \subseteq Range(csv.columns)
    /\ Len(df.columns) = Cardinality(Range(df.columns))
    /\ \A p, q \in DOMAIN df.columns :
         p < q => Pos(csv, df.columns[p]) < Pos(csv, df.columns[q])
    /\ Len(df.rows) = Cardinality(CleanIdx(csv))
    /\ \A k \in DOMAIN df.rows :
         /\ DOMAIN df.rows[k] = Range(df.columns)
         /\ \A c \in Range(df.columns) : df.rows[k][c] = csv.rows[NthClean(csv, k)][c]

\* C5 witness: a table with rows lost a column and kept two
C5_Witness ==
  /\ df.bound /\ df.rows # <<>>
  /\ Len(df.columns) >= 2
  /\ Len(df.columns) < Len(csv.columns)

\* C6: assembly only adds x_vec and scaling only adds x_scaled: the rows, the
\* original columns and their values are those of df, x_vec is the same in both
\* tables, and a table is never changed once it is bound.
C6_DerivedTables ==
  /\ [](/\ temp_train.bound =>
             /\ temp_train.columns = Append(df.columns, "x_vec")
             /\ Len(temp_train.rows) = Len(df.rows)
             /\ \A i \in DOMAIN df.rows : \A c \in Range(df.columns) :
                  temp_train.rows[i][c] = df.rows[i][c]
        /\ scaledData.bound =>
             /\ scaledData.columns = Append(temp_train.columns, "x_scaled")
             /\ Len(scaledData.rows) = Len(df.rows)
             /\ \A i \in DOMAIN df.rows :
                  /\ \A c \in Range(df.columns) : scaledData.rows[i][c] = df.rows[i][c]
                  /\ scaledData.rows[i]["x_vec"] = temp_train.rows[i]["x_vec"])
  /\ [][/\ csv.bound => csv' = csv
        /\ df.bound => df' = df
        /\ temp_train.bound => temp_train' = temp_train
        /\ scaledData.bound => scaledData' = scaledData]_vars

\* C6 witness: a table with rows and a label column was assembled and scaled
C6_Witness ==
  /\ scaledData.bound /\ scaledData.rows # <<>>
  /\ Range(df.columns) \cap LabelColumns # {}

\* table t with the cell of row i, column c replaced by v
WithCell(t, i, c, v) ==
  Table(t.columns, [t.rows EXCEPT ![i] = [t.rows[i] EXCEPT ![c] = v]])

NonLabel(t) == {c \in Range(t.columns) : c \notin LabelColumns}

\* C8: featuresToScale is the columns of df other than CLASS and NSP, in df's
\* order (25 names for the committed schema); x_vec and x_scaled have one
\* component per such column, component k being the row's value in the k-th of
\* them; and replacing a row's CLASS or NSP value changes no x_vec and no
\* x_scaled of the scaled table.
C8_LabelsOutsideFeatures ==
  /\ Len(FeaturesToScale(Table(CommittedSchema, <<>>))) = 25
  /\ temp_train.bound =>
       /\ Range(featuresToScale) = NonLabel(df)
       /\ Len(featuresToScale) = Cardinality(NonLabel(df))
       /\ \A p, q \in DOMAIN featuresToScale :
            p < q => Pos(df, featuresToScale[p]) < Pos(df, featuresToScale[q])
       /\ \A i \in DOMAIN temp_train.rows :
            /\ Len(temp_train.rows[i]["x_vec"].v) = Cardinality(NonLabel(df))
            /\ \A k \in DOMAIN featuresToScale :
                 temp_train.rows[i]["x_vec"].v[k] = df.rows[i][featuresToScale[k]].v
  /\ scaledData.bound =>
       /\ \A i \in DOMAIN scaledData.rows :
            Len(scaledData.rows[i]["x_scaled"].v) = Cardinality(NonLabel(df))
       /\ \A i \in DOMAIN df.rows : \A c \in Range(df.columns) \cap LabelColumns :
            \A v \in {Val(1), Val(2), Val(9)} :
              \A j \in DOMAIN df.rows :
                /\ Scaled(WithCell(df, i, c, v)).rows[j]["x_vec"]
                     = scaledData.rows[j]["x_vec"]
                /\ Scaled(WithCell(df, i, c, v)).rows[j]["x_scaled"]
                     = scaledData.rows[j]["x_scaled"]

\* C8 witness: a scaled table with rows whose first column is a label and
\* whose later columns are features
C8_Witness ==
  /\ scaledData.bound /\ scaledData.rows # <<>>
  /\ df.columns[1] \in LabelColumns
  /\ Len(featuresToScale) >= 2

XVec(j, k) == scaledData.rows[j]["x_vec"].v[k]

XScaled(j, k) == scaledData.rows[j]["x_scaled"].v[k]

Dims == 1..Len(featuresToScale)

IsMin(j, k) == \A i \in DOMAIN scaledData.rows : XVec(j, k) <= XVec(i, k)

IsMax(j, k) == \A i \in DOMAIN scaledData.rows : XVec(j, k) >= XVec(i, k)

Constant(k) == \A i, j \in DOMAIN scaledData.rows : XVec(i, k) = XVec(j, k)

InUnitInterval(q) == q[2] > 0 /\ 0 <= q[1] /\ q[1] <= q[2]

\* replacing the value of one feature of one row changes no other dimension
\* of any row's x_scaled
OtherDimensionsUnchanged ==
  \A i \in DOMAIN df.rows : \A kc \in Dims : \A v \in {Val(0), Val(2), Val(7)} :
    \A j \in DOMAIN df.rows : \A k \in Dims \ {kc} :
      Scaled(WithCell(df, i, featuresToScale[kc], v)).rows[j]["x_scaled"].v[k]
        = XScaled(j, k)

\* C2 as stated: every component of x_scaled is in [0,1], a row holding the
\* observed minimum of a dimension has 0 there, a row holding the observed
\* maximum has 1 there, and a dimension depends on no other dimension.
C2_AsStated ==
  scaledData.bound =>
    /\ \A j \in DOMAIN scaledData.rows : \A k \in Dims :
         /\ InUnitInterval(XScaled(j, k))
         /\ IsMin(j, k) => XScaled(j, k)[1] = 0
         /\ IsMax(j, k) => XScaled(j, k)[1] = XScaled(j, k)[2]
    /\ OtherDimensionsUnchanged

\* C2 amended: every component of x_scaled is in [0,1]; in a dimension whose
\* observed minimum and maximum differ, a row holding the minimum has 0, a row
\* holding the maximum has 1 and every row has (x - min) / (max - min); in a
\* dimension whose values are all equal every row has 1/2; and a dimension
\* depends on no other dimension.
C2_MinMaxScaling ==
  scaledData.bound =>
    /\ \A j \in DOMAIN scaledData.rows : \A k \in Dims :
         /\ InUnitInterval(XScaled(j, k))
         /\ Constant(k) => 2 * XScaled(j, k)[1] = XScaled(j, k)[2]
         /\ ~Constant(k) =>
              /\ IsMin(j, k) => XScaled(j, k)[1] = 0
              /\ IsMax(j, k) => XScaled(j, k)[1] = XScaled(j, k)[2]
              /\ \A lo, hi \in DOMAIN scaledData.rows :
                   IsMin(lo, k) /\ IsMax(hi, k) =>
                     XScaled(j, k)[1] * (XVec(hi, k) - XVec(lo, k))
                       = (XVec(j, k) - XVec(lo, k)) * XScaled(j, k)[2]
    /\ OtherDimensionsUnchanged

\* C2 witness: a scaled table with a dimension holding a value strictly
\* between its minimum and maximum, and a dimension whose values are all equal
C2_Witness ==
  /\ scaledData.bound
  /\ \E k \in Dims : \E j \in DOMAIN scaledData.rows : ~IsMin(j, k) /\ ~IsMax(j, k)
  /\ \E k \in Dims : Constant(k)

\* C7: labels is never bound, the run never gets past the split cell, and the
\* step that runs the split cell ends the run in a SyntaxError.
C7_SplitCellFails ==
  /\ [](~labels.bound /\ pc \notin {"select", "end"})
  /\ [][pc = "split" => pc' = "error" /\ err' = "SyntaxError"]_vars

\* C7 witness: the run reached the split cell and stopped there in the error
C7_Witness ==
  /\ pc = "error" /\ err = "SyntaxError"
  /\ Len(display) = 2 /\ display[2].kind = "show"

\* the order of the steps
Rank(p) ==
  CASE p = "imports"  -> 1
    [] p = "session"  -> 2
    [] p = "read"     -> 3
    [] p = "features" -> 4
    [] p = "show"     -> 5
    [] p = "split"    -> 6
    [] p = "select"   -> 7
    [] p = "end"      -> 8
    [] p = "error"    -> 9

Shown == \E n \in DOMAIN display : display[n].kind = "show"

\* component k of x_scaled of row r is component k of its x_vec rescaled with
\* the fitted minimum and maximum
ScaledWithModel(r) ==
  \A k \in DOMAIN r["x_vec"].v :
    r["x_scaled"].v[k]
      = Rescale(r["x_vec"].v[k], scalerModel.originalMin[k], scalerModel.originalMax[k])

Count(t, r) == Cardinality({i \in DOMAIN t.rows : t.rows[i] = r})

====
